---- MODULE Spec2Model ----
(***************************************************************************)
(* Model of pl-gdci.py: the GIMP plug-in that exports the icons of Delphi  *)
(* components (BMP and PNG at fixed sizes), generates one .rc file per     *)
(* component and creates a template image.                                 *)
(*                                                                         *)
(* Strings are sequences of one-character strings, so that the string      *)
(* operations of the script (startswith, split, strip, re.sub, f-strings)  *)
(* are computed and not assumed.  Every call into the host (GIMP) can      *)
(* fail; the number of failing calls in one behaviour is bounded.          *)
(***************************************************************************)
EXTENDS Integers, Sequences, FiniteSets, TLC

\* ------------------------------------------------------------------------
\* Bounds of the model
\* ------------------------------------------------------------------------
\* the number of host calls that fail while one operation is run alone
MaxFails == 1
\* the number of operations run one after the other on the same image, and
\* the number of host calls that fail in such a sequence
MaxOps == 2
MaxSeqFails == 0
\* the calls of the size loop fail at the first sizes of a pass, this many, and
\* at its last size
MaxFailSizes == 2

\* a behaviour is one operation or a sequence of operations
Scenarios == { [fails |-> MaxFails, ops |-> 1], [fails |-> MaxSeqFails, ops |-> MaxOps] }

\* ------------------------------------------------------------------------
\* Strings
\* ------------------------------------------------------------------------
UpperChars == <<"A","B","C","D","E","F","G","H","I","J","K","L","M",
                "N","O","P","Q","R","S","T","U","V","W","X","Y","Z">>
LowerChars == <<"a","b","c","d","e","f","g","h","i","j","k","l","m",
                "n","o","p","q","r","s","t","u","v","w","x","y","z">>
DigitChars == <<"0","1","2","3","4","5","6","7","8","9">>

Range(f) == { f[i] : i \in DOMAIN f }

\* the characters the pattern [A-Za-z0-9_] matches
WordChars == Range(UpperChars) \cup Range(LowerChars) \cup Range(DigitChars) \cup {"_"}

\* the characters str.split(None) and str.strip() treat as whitespace
SpaceChars == {" ", "\t", "\n"}

\* str.lower() on one character
LowerChar(c) ==
    IF c \in Range(UpperChars)
    THEN LowerChars[CHOOSE i \in DOMAIN UpperChars : UpperChars[i] = c]
    ELSE c

\* str.lower()
Lower(s) == [i \in DOMAIN s |-> LowerChar(s[i])]

\* str.startswith(prefix)
StartsWith(s, prefix) ==
    /\ Len(s) >= Len(prefix)
    /\ SubSeq(s, 1, Len(prefix)) = prefix

\* s[from..] (empty when from is past the end)
Tail_(s, from) == IF from > Len(s) THEN << >> ELSE SubSeq(s, from, Len(s))

\* the index of the first character at or after i that is / is not whitespace,
\* Len(s)+1 when there is none
RECURSIVE SkipSpaces(_, _)
SkipSpaces(s, i) ==
    IF i > Len(s) THEN Len(s) + 1
    ELSE IF s[i] \in SpaceChars THEN SkipSpaces(s, i + 1) ELSE i

RECURSIVE SkipWord(_, _)
SkipWord(s, i) ==
    IF i > Len(s) THEN Len(s) + 1
    ELSE IF s[i] \in SpaceChars THEN i ELSE SkipWord(s, i + 1)

\* str.split(None, 1): at most two fields, separated by the first run of
\* whitespace; leading whitespace is dropped, and so is a trailing run of
\* whitespace that follows the first field
SplitNone1(s) ==
    LET b == SkipSpaces(s, 1)
        e == SkipWord(s, b)
        r == SkipSpaces(s, e)
    IN  IF b > Len(s) THEN << >>
        ELSE IF r > Len(s) THEN << SubSeq(s, b, e - 1) >>
        ELSE << SubSeq(s, b, e - 1), Tail_(s, r) >>

RECURSIVE LastNonSpace(_, _)
LastNonSpace(s, i) ==
    IF i < 1 THEN 0
    ELSE IF s[i] \in SpaceChars THEN LastNonSpace(s, i - 1) ELSE i

\* str.strip()
Strip(s) ==
    LET b == SkipSpaces(s, 1)
        e == LastNonSpace(s, Len(s))
    IN  IF b > e THEN << >> ELSE SubSeq(s, b, e)

\* re.sub(r'[^A-Za-z0-9_]', '_', s)
ReSub(s) == [i \in DOMAIN s |-> IF s[i] \in WordChars THEN s[i] ELSE "_"]

\* str(n) for a natural number: its decimal digits
RECURSIVE Str(_)
Str(n) ==
    IF n < 10 THEN << DigitChars[n + 1] >>
    ELSE Str(n \div 10) \o << DigitChars[(n % 10) + 1] >>

\* ------------------------------------------------------------------------
\* Program constants
\* ------------------------------------------------------------------------
EXPORT_SIZES == <<24, 32, 48, 72, 96, 128, 256, 512, 1024>>

CmpPrefix == <<"C","m","p"," ">>
CmpPrefixLower == <<"c","m","p"," ">>
NameTransparent == <<"T","r","a","n","s","p","a","r","e","n","t"," ",
                     "B","a","c","k","g","r","o","u","n","d">>
NameFucsia == <<"F","u","c","s","i","a"," ","B","a","c","k","g","r","o","u","n","d">>
NameSmallLogo == <<"S","m","a","l","l"," ","l","o","g","o">>
ExtBmp == <<".","b","m","p">>
ExtPng == <<".","p","n","g">>
ExtRc == <<".","r","c">>
SuffixPng == <<"_","P","N","G">>

\* ------------------------------------------------------------------------
\* Pure helpers of the script
\* ------------------------------------------------------------------------
\* is_component_layer, on the name get_name() returned
IsComponentName(name) == StartsWith(name, CmpPrefix)

\* line 384: the identifier the export derives from a layer name.  The
\* subscript [1] raises IndexError when split() returns one field only.
ExportIdentRaises(name) ==
    /\ StartsWith(Lower(name), CmpPrefixLower)
    /\ Len(SplitNone1(name)) < 2

ExportIdent(name) ==
    IF StartsWith(Lower(name), CmpPrefixLower)
    THEN ReSub(Strip(SplitNone1(name)[2]))
    ELSE ReSub(name)

\* lines 575-581: the name the rc generator derives; the IndexError of the
\* subscript is caught there and the layer is skipped
RcNameRaises(raw) ==
    /\ StartsWith(Lower(raw), CmpPrefixLower)
    /\ Len(SplitNone1(raw)) < 2

RcName(raw) ==
    IF StartsWith(Lower(raw), CmpPrefixLower)
    THEN Strip(SplitNone1(raw)[2])
    ELSE Strip(raw)

\* line 584
RcIdent(raw) == ReSub(RcName(raw))

\* line 560: sorted(set([16] + list(EXPORT_SIZES)))
RECURSIVE SortedSeq(_)
SortedSeq(S) ==
    IF S = {} THEN << >>
    ELSE LET m == CHOOSE x \in S : \A y \in S : x <= y
         IN  << m >> \o SortedSeq(S \ {m})

\* the size 16 left out
RcSizesWithout16 == EXPORT_SIZES

RcSizes == SortedSeq({16} \cup Range(EXPORT_SIZES))

\* lines 435 and 494: f"{compSafe}{s}.bmp" / f"{compSafe}{s}.png"
ArtifactName(ident, s, ext) == ident \o Str(s) \o ext

\* os.path.join(folder, name)
Path(folder, name) == [dir |-> folder, name |-> name]

\* get_image_size_safe falls back to this size (line 329)
FallbackSize == <<1024, 1024>>

\* ------------------------------------------------------------------------
\* Documents the operations are run on
\* ------------------------------------------------------------------------
L(name, visible) == [name |-> name, visible |-> visible]

NameCmpA   == CmpPrefix \o <<"A">>
NameCmpBc  == CmpPrefix \o <<"B", ".", "c">>
NameCmpB_c == CmpPrefix \o <<"B", "_", "c">>
\* "Cmp" followed by whitespace only
NameCmpBlank == CmpPrefix \o <<" ">>
\* extra whitespace around the component name, a space inside it
NameCmpSpaced == CmpPrefix \o <<" ", "T", " ", "x", " ">>
\* not a component layer: is_component_layer is case-sensitive
NameLowerCmp == <<"c","m","p"," ","z">>

Docs == <<
    \* two components and the three service layers
    [w |-> 1024, h |-> 1024,
     layers |-> << L(NameCmpA, TRUE), L(NameCmpBc, TRUE), L(NameSmallLogo, FALSE),
                   L(NameFucsia, FALSE), L(NameTransparent, TRUE) >>],
    \* one component, no service layer, a layer that only looks like a component
    [w |-> 300, h |-> 200,
     layers |-> << L(NameLowerCmp, TRUE), L(NameCmpSpaced, FALSE) >>],
    \* no component layer
    [w |-> 300, h |-> 200,
     layers |-> << L(NameSmallLogo, TRUE), L(NameLowerCmp, TRUE) >>],
    \* a component layer with a blank name after a regular one
    [w |-> 300, h |-> 200,
     layers |-> << L(NameCmpA, TRUE), L(NameCmpBlank, TRUE), L(NameFucsia, TRUE) >>],
    \* two component layers whose names differ in punctuation only
    [w |-> 300, h |-> 200,
     layers |-> << L(NameCmpBc, FALSE), L(NameCmpB_c, TRUE) >> ]
>>

\* folders a caller can name: one that can be created, one that cannot
GoodFolder == <<"o","u","t">>
BadFolder == <<"b","a","d">>
\* a folder argument made of whitespace only
BlankFolder == <<" "," ">>
\* None, and the empty string: the script tests both with "not outputFolder"
NoFolder == << >>

\* makedirs(folder, exist_ok=True) raises for this folder
Creatable(folder) == folder = GoodFolder

\* ------------------------------------------------------------------------
\* State
\* ------------------------------------------------------------------------
VARIABLES
    doc,              \* the index in Docs of the image the procedures get
    layers,           \* the Document's layers, each [name, visible]
    images,           \* every duplicate made so far (a master), by id
    dirs,             \* the folders that exist
    files,            \* the files that exist: path -> content
    dialogs,          \* the dialogs opened so far
    log,              \* the messages written with _safe_msg
    op,               \* the running operation
    pc,               \* its position
    runMode,          \* its run mode
    args,             \* its positional arguments
    status,           \* what the last operation returned
    outputFolder,     \* outputFolder / outFolder
    layerTransparent, \* index of the layer found, 0 for None
    layerFucsia,
    layerSmallLogo,
    componentLayers,  \* indexes of the component layers, in layer order
    compIdx,          \* position of compLayer / layer in componentLayers
    compSafe,         \* the identifier of the current component
    pass,             \* "bmp" or "png"
    master,           \* bmp_master / png_master: an image id, 0 for None
    orig,             \* <<orig_w, orig_h>>
    sizeIdx,          \* position of s in EXPORT_SIZES
    raising,          \* an exception is propagating out of the operation
    visFailed,        \* where a set_visible call of the current component failed
    saves,            \* the gimp_file_save calls of the running operation
    writes,           \* the .rc files the running operation tried to write
    pre,              \* what the running operation found when it was invoked
    created_files,    \* generate_rc_files: the .rc files written
    template,         \* create_template_image: new_img, its layers top first
    background,       \* the background colour of the host's context
    exported,         \* an export operation has run to its end before
    fails,            \* host calls that failed so far
    ops,              \* operations invoked so far
    budget,           \* host calls that fail in this behaviour, at most
    limit             \* operations invoked in this behaviour, at most

hostVars == << layers, images, template, background >>
envVars == << doc, budget, limit, pre >>
fsVars == << dirs, files >>
exportVars == << layerTransparent, layerFucsia, layerSmallLogo, compSafe, pass,
                 master, orig, sizeIdx, saves >>
loopVars == << componentLayers, compIdx >>
vars == << doc, layers, images, dirs, files, dialogs, log, op, pc, runMode, args,
           status, outputFolder, layerTransparent, layerFucsia, layerSmallLogo,
           componentLayers, compIdx, compSafe, pass, master, orig, sizeIdx, raising, visFailed,
           saves, writes, pre, created_files, template, background, exported, fails, ops, budget, limit >>

\* the state an operation finds: the folders, the files, the layers, the open
\* duplicates and the count of failed host calls
Snapshot(open) ==
    [dirs |-> dirs, files |-> files, layers |-> layers, images |-> Len(open),
     fails |-> fails]

\* no template image made yet
NoImage == [exists |-> FALSE, w |-> 0, h |-> 0, layers |-> << >>, displayed |-> FALSE]

Interactive == "INTERACTIVE"
NonInteractive == "NONINTERACTIVE"

\* 0 for a call that succeeds, 1 for one that fails
F(ok) == IF ok THEN 0 ELSE 1

\* the budget of failing host calls allows n more
CanFail(n) == fails + n <= budget

\* the outcomes of a host call: it can fail only where it is made, and only
\* while the budget allows one more failure after the n chosen before it
Outcomes(made, n) == IF made /\ CanFail(n + 1) THEN BOOLEAN ELSE {TRUE}

LayerIdx == DOMAIN layers

\* show_message_dialog (lines 104-143): nothing is opened when a run mode is
\* given and it is not INTERACTIVE
ShowMessage(ds, title, mode) ==
    IF mode # "None" /\ mode # Interactive THEN ds
    ELSE Append(ds, [kind |-> "message", title |-> title])

Init ==
    /\ doc \in DOMAIN Docs
    /\ layers = Docs[doc].layers
    /\ images = << >>
    \* no folder exists before the first operation; a later one finds the
    \* folders the earlier ones made
    /\ dirs = {}
    /\ files = << >>
    /\ dialogs = << >>
    /\ log = << >>
    /\ op = "none"
    /\ pc = "idle"
    /\ runMode = NonInteractive
    /\ args = << >>
    /\ status = "NONE"
    /\ outputFolder = NoFolder
    /\ layerTransparent = 0
    /\ layerFucsia = 0
    /\ layerSmallLogo = 0
    /\ componentLayers = << >>
    /\ compIdx = 0
    /\ compSafe = << >>
    /\ pass = "none"
    /\ master = 0
    /\ orig = << 0, 0 >>
    /\ sizeIdx = 0
    /\ raising = FALSE
    /\ visFailed = {}
    /\ saves = << >>
    /\ writes = << >>
    /\ created_files = << >>
    /\ template = NoImage
    /\ background = "old"
    /\ exported = FALSE
    /\ fails = 0
    /\ ops = 0
    /\ \E sc \in Scenarios : budget = sc.fails /\ limit = sc.ops
    /\ pre = Snapshot(<< >>)

\* ------------------------------------------------------------------------
\* Invocation of a procedure by the host
\* ------------------------------------------------------------------------
ArgChoices == { << >>, << GoodFolder >>, << BadFolder >>, << BlankFolder >> }

\* what the folder chooser returns (ask_output_folder, lines 67-101): None when
\* the user cancels, the dialog fails or the name is blank
PickerChoices == { NoFolder, GoodFolder, BadFolder }

Invoke ==
    /\ pc = "idle"
    /\ ops < limit
    /\ \E o \in {"export", "rc", "template"}, m \in {Interactive, NonInteractive},
          a \in ArgChoices :
        \* the arguments are read in a non-interactive run of export and rc only
        /\ (m = Interactive \/ o = "template") => a = << >>
        /\ op' = o
        /\ runMode' = m
        /\ args' = a
        /\ pc' = IF o = "template" THEN "t_context" ELSE "resolve"
    /\ ops' = ops + 1
    /\ status' = "NONE"
    /\ outputFolder' = NoFolder
    /\ layerTransparent' = 0
    /\ layerFucsia' = 0
    /\ layerSmallLogo' = 0
    /\ componentLayers' = << >>
    /\ compIdx' = 0
    /\ compSafe' = << >>
    /\ pass' = "none"
    /\ master' = 0
    /\ orig' = << 0, 0 >>
    /\ sizeIdx' = 0
    /\ raising' = FALSE
    /\ visFailed' = {}
    /\ saves' = << >>
    /\ writes' = << >>
    /\ pre' = Snapshot(SelectSeq(images, LAMBDA img : img.open))
    /\ created_files' = << >>
    /\ dialogs' = << >>
    /\ log' = << >>
    \* an image the host has deleted is gone
    /\ images' = SelectSeq(images, LAMBDA img : img.open)
    /\ UNCHANGED << doc, budget, limit, layers, dirs, files, template, background, exported, fails >>

\* procedure.new_return_values(st, None)
Return(st) ==
    /\ pc' = "idle"
    /\ status' = st

\* ------------------------------------------------------------------------
\* Folder resolution, common to the export and the rc generator
\* ------------------------------------------------------------------------
\* lines 336-345 / 534-543
ArgFolder(m, a) == IF m # Interactive /\ Len(a) > 0 THEN a[1] ELSE NoFolder

\* lines 350 / 548: not folder or folder.strip() == ""
NoFolderGiven(f) == f = NoFolder \/ Strip(f) = << >>

\* a missing folder reported as an error
NoFolderStatusError == "CALLING_ERROR"

\* the status returned when no folder is given (lines 353 / 551)
NoFolderStatus == "CANCEL"

\* the dialogs of the cancel path (lines 351-352 / 549-550)
CancelDialogs(ds, title, m) ==
    IF m = Interactive THEN ShowMessage(ds, title, m) ELSE ds

ResolveFolder(cancelTitle) ==
    /\ pc = "resolve"
    /\ \E picked \in PickerChoices :
        LET fromArgs == ArgFolder(runMode, args)
            asked == runMode = Interactive
            folder == IF asked THEN picked ELSE fromArgs
            ds == IF asked THEN Append(dialogs, [kind |-> "chooser", title |-> "Select Output Folder"])
                  ELSE dialogs
        IN  /\ (~asked) => picked = NoFolder
            /\ outputFolder' = folder
            /\ IF NoFolderGiven(folder)
               THEN /\ dialogs' = CancelDialogs(ds, cancelTitle, runMode)
                    /\ Return(NoFolderStatus)
               ELSE /\ dialogs' = ds
                    /\ pc' = "makedirs"
                    /\ UNCHANGED status
    /\ UNCHANGED << envVars, visFailed, writes, hostVars, fsVars, log, op, runMode, args, exportVars, loopVars,
                    raising, created_files, exported, fails, ops >>

\* lines 355-359 / 553-557: os.makedirs(folder, exist_ok=True)
MakeDirs ==
    /\ pc = "makedirs"
    /\ IF Creatable(outputFolder)
       THEN /\ dirs' = dirs \cup {outputFolder}
            /\ pc' = "find"
            /\ UNCHANGED << dialogs, status >>
       ELSE /\ dialogs' = ShowMessage(dialogs, "Error", runMode)
            /\ Return("CALLING_ERROR")
            /\ UNCHANGED dirs
    /\ UNCHANGED << envVars, visFailed, writes, hostVars, files, log, op, runMode, args, outputFolder,
                    exportVars, loopVars, raising, created_files, exported,
                    fails, ops >>

ExportResolveFolder == op = "export" /\ ResolveFolder("Operation canceled")
ExportMakeDirs == op = "export" /\ MakeDirs

\* ------------------------------------------------------------------------
\* export_component_variants_no_pdb
\* ------------------------------------------------------------------------
\* find_layer_by_name (lines 159-166): the first layer of that name; None when
\* there is none or a host call raises
FindLayerByName(name, ok) ==
    IF ok /\ \E i \in LayerIdx : layers[i].name = name
    THEN CHOOSE i \in LayerIdx :
            /\ layers[i].name = name
            /\ \A j \in LayerIdx : layers[j].name = name => i <= j
    ELSE 0

RECURSIVE SelectIdx(_, _, _)
SelectIdx(i, n, keep) ==
    IF i > n THEN << >>
    ELSE (IF i \in keep THEN << i >> ELSE << >>) \o SelectIdx(i + 1, n, keep)

\* the elements of ls whose index is in keep, in order
SelectIdxLayers(ls, keep) == [k \in DOMAIN SelectIdx(1, Len(ls), keep) |->
                                ls[SelectIdx(1, Len(ls), keep)[k]]]

\* lines 372-376 / 562-566: the layers is_component_layer accepts, in layer
\* order; none when get_layers raises; a layer whose get_name raises is no
\* component layer (lines 169-173)
ComponentLayersOf(listOk, nameFails) ==
    IF listOk
    THEN SelectIdx(1, Len(layers),
                   { i \in LayerIdx : i \notin nameFails /\ IsComponentName(layers[i].name) })
    ELSE << >>

\* the warnings of lines 365-370
MissingWarnings(sl, fu, tr) ==
    (IF sl = 0 THEN << "Warning: 'Small logo' layer not found." >> ELSE << >>)
    \o (IF fu = 0 THEN << "Warning: 'Fucsia Background' layer not found." >> ELSE << >>)
    \o (IF tr = 0 THEN << "Warning: 'Transparent Background' layer not found." >> ELSE << >>)

\* lines 361-380
ExportFindLayers ==
    /\ op = "export" /\ pc = "find"
    /\ \E trOk, fuOk, slOk, listOk \in BOOLEAN, nameFails \in SUBSET LayerIdx :
        LET tr == FindLayerByName(NameTransparent, trOk)
            fu == FindLayerByName(NameFucsia, fuOk)
            sl == FindLayerByName(NameSmallLogo, slOk)
            comps == ComponentLayersOf(listOk, nameFails)
            n == F(trOk) + F(fuOk) + F(slOk) + F(listOk) + Cardinality(nameFails)
        IN  /\ CanFail(n)
            /\ (~listOk) => nameFails = {}
            /\ fails' = fails + n
            /\ layerTransparent' = tr
            /\ layerFucsia' = fu
            /\ layerSmallLogo' = sl
            /\ log' = log \o MissingWarnings(sl, fu, tr)
            /\ componentLayers' = comps
            /\ IF comps = << >>
               THEN /\ dialogs' = ShowMessage(dialogs, "No components", runMode)
                    /\ Return("CALLING_ERROR")
                    /\ UNCHANGED compIdx
               ELSE /\ compIdx' = 1
                    /\ pc' = "comp"
                    /\ UNCHANGED << dialogs, status >>
    /\ UNCHANGED << envVars, visFailed, writes, hostVars, fsVars, op, runMode, args, outputFolder, compSafe,
                    pass, master, orig, sizeIdx, raising, saves, created_files, exported, ops >>

\* layer.set_visible(v) on layer i, when the call succeeds
SetVisible(ls, i, v, ok) ==
    IF i # 0 /\ ok THEN [ls EXCEPT ![i].visible = v] ELSE ls

CompLayer == componentLayers[compIdx]

\* lines 386-405: hide every component layer, show 'Small logo' and compLayer
ShowOnlyComponent(ls, hideFails, logoOk, showOk) ==
    LET hidden == [i \in DOMAIN ls |->
                     IF i \in Range(componentLayers) /\ i \notin hideFails
                     THEN [ls[i] EXCEPT !.visible = FALSE] ELSE ls[i]]
        logo == SetVisible(hidden, layerSmallLogo, TRUE, logoOk)
    IN  SetVisible(logo, CompLayer, TRUE, showOk)

\* lines 383-405: the head of the loop over the component layers.  Line 384 is
\* outside every try: a get_name that raises, or the IndexError of the
\* subscript, leaves the operation as an exception.
CompBegin ==
    /\ op = "export" /\ pc = "comp"
    /\ \E nameOk, logoOk, showOk \in BOOLEAN, hideFails \in SUBSET Range(componentLayers) :
        LET name == layers[CompLayer].name
            raises == ~nameOk \/ ExportIdentRaises(name)
            n == F(nameOk) + Cardinality(hideFails) + F(logoOk) + F(showOk)
        IN  /\ CanFail(n)
            /\ raises => (hideFails = {} /\ logoOk /\ showOk)
            /\ layerSmallLogo = 0 => logoOk
            /\ fails' = fails + n
            /\ visFailed' = IF hideFails = {} /\ logoOk /\ showOk THEN {} ELSE {"comp"}
            /\ IF raises
               THEN /\ Return("EXCEPTION")
                    /\ UNCHANGED << layers, compSafe, pass, master >>
               ELSE /\ compSafe' = ExportIdent(name)
                    /\ layers' = ShowOnlyComponent(layers, hideFails, logoOk, showOk)
                    /\ pass' = "bmp"
                    /\ master' = 0
                    /\ pc' = "prep"
                    /\ UNCHANGED status
    /\ UNCHANGED << envVars, writes, images, fsVars, dialogs, log, op, runMode, args, outputFolder,
                    layerTransparent, layerFucsia, layerSmallLogo, loopVars, orig,
                    sizeIdx, raising, saves, created_files, template, background, exported, ops >>

\* the transparent layer left as it is
ShowBackgroundFucsiaOnly(ls, p, fuOk, trOk) == SetVisible(ls, layerFucsia, p = "bmp", fuOk)

\* lines 410-419 (BMP: show the fuchsia layer, hide the transparent one) and
\* 476-485 (PNG: the reverse)
ShowBackground(ls, p, fuOk, trOk) ==
    LET fu == SetVisible(ls, layerFucsia, p = "bmp", fuOk)
    IN  SetVisible(fu, layerTransparent, p = "png", trOk)

\* image.duplicate() (line 179) followed by merge_visible_to_single_layer and,
\* for BMP, flatten_image_if_possible: the new master
NewMaster(ls, p, mergeOk, flatOk) ==
    [comp |-> CompLayer, pass |-> p, visible |-> { i \in DOMAIN ls : ls[i].visible },
     w |-> Docs[doc].w, h |-> Docs[doc].h,
     open |-> TRUE, deletes |-> 0,
     merged |-> mergeOk, flat |-> (p = "bmp" /\ mergeOk /\ flatOk)]

\* get_image_size_safe (lines 321-329)
ImageSizeSafe(img, ok) == IF ok THEN << img.w, img.h >> ELSE FallbackSize

\* what the duplicate / merge / flatten chain logs (lines 181, 194, 268)
MasterLog(dupOk, mergeOk, flatOk) ==
    (IF ~dupOk THEN << "duplicate_image: image.duplicate failed" >> ELSE << >>)
    \o (IF ~mergeOk THEN << "merge_visible_layers() raised" >> ELSE << >>)
    \o (IF ~flatOk THEN << "flatten failed" >> ELSE << >>)

\* lines 408-431 and 473-491: the master of a pass
PassPrepare ==
    /\ op = "export" /\ pc = "prep"
    /\ \E fuOk \in Outcomes(layerFucsia # 0, 0) :
       \E trOk \in Outcomes(layerTransparent # 0, F(fuOk)) :
       \E dupOk \in Outcomes(TRUE, F(fuOk) + F(trOk)) :
       \E mergeOk \in Outcomes(dupOk, F(fuOk) + F(trOk)) :
       \E flatOk \in Outcomes(dupOk /\ mergeOk /\ pass = "bmp", F(fuOk) + F(trOk)) :
       \E sizeOk \in Outcomes(dupOk /\ mergeOk, F(fuOk) + F(trOk) + F(flatOk)) :
        LET ls == ShowBackground(layers, pass, fuOk, trOk)
            img == NewMaster(ls, pass, mergeOk, flatOk)
            n == F(fuOk) + F(trOk) + F(dupOk) + F(mergeOk) + F(flatOk) + F(sizeOk)
        IN  /\ CanFail(n)
            /\ fails' = fails + n
            /\ visFailed' = (visFailed \cap {"comp"})
                             \cup (IF fuOk /\ trOk THEN {} ELSE {"pass"})
            /\ layers' = ls
            /\ log' = log \o MasterLog(dupOk, mergeOk, flatOk)
            /\ IF ~dupOk
               THEN /\ pc' = "handler"
                    /\ UNCHANGED << images, master, orig, sizeIdx >>
               ELSE /\ images' = Append(images, img)
                    /\ master' = Len(images) + 1
                    /\ IF ~mergeOk
                       THEN /\ pc' = "handler"
                            /\ UNCHANGED << orig, sizeIdx >>
                       ELSE /\ orig' = ImageSizeSafe(img, sizeOk)
                            /\ sizeIdx' = 1
                            /\ pc' = "size"
    /\ UNCHANGED << envVars, writes, fsVars, dialogs, op, runMode, args, status, outputFolder,
                    layerTransparent, layerFucsia, layerSmallLogo, loopVars, compSafe,
                    pass, raising, saves, created_files, template, background, exported, ops >>

\* image.scale(w, h) (lines 252-259): the size changes when the call succeeds
Scaled(img, w, h, ok) == IF ok THEN [img EXCEPT !.w = w, !.h = h] ELSE img

\* the restore left out
RestoredNot(img, ok) == img

\* lines 448-449 / 507-508: scale_image(master, orig_w, orig_h)
Restored(img, ok) == Scaled(img, orig[1], orig[2], ok)

\* the delete left out
DeletedNot(img, ok) == img

\* delete_image_safe (lines 278-284): the image is gone when the call succeeds;
\* a call that raises is swallowed
Deleted(img, ok) ==
    [img EXCEPT !.deletes = @ + 1, !.open = IF ok THEN FALSE ELSE @]

\* lines 436-441 / 495-500: the exception of scale_image is caught at 439 / 498
\* and gimp_file_save is called next, whether or not the scale succeeded
SaveCalled(scaleOk) == TRUE

\* gimp_file_save (lines 287-315): the file is written when the host reports
\* success; every error is turned into False
FileSaved(fs, path, img, ok) ==
    IF ok THEN (path :> [kind |-> img.pass, w |-> img.w, h |-> img.h, of |-> img.comp]) @@ fs
    ELSE fs

\* the inner try of lines 437-440 left out: a failing scale ends the pass
IterationRaisesOnScale(scaleOk, saveOk, restoreOk, dupOk, mergeOk) ==
    ~scaleOk \/ (~restoreOk /\ (~dupOk \/ ~mergeOk))

\* lines 436-462 / 495-516: the exception that leaves one size of the loop.
\* The one of scale_image is caught (439 / 498) and gimp_file_save returns
\* False instead of raising; the finally clause raises when the restore fails
\* and the master cannot be made again.
IterationRaises(scaleOk, saveOk, restoreOk, dupOk, mergeOk) ==
    ~restoreOk /\ (~dupOk \/ ~mergeOk)

\* where the loop over EXPORT_SIZES goes after size number i
AfterSize(i, raised) ==
    IF raised THEN "handler"
    ELSE IF i < Len(EXPORT_SIZES) THEN "size" ELSE "finally"

PassTag(p) == IF p = "bmp" THEN "BMP" ELSE "PNG"

SizeLog(p, scaleOk, saveCalled, saveOk, restoreOk) ==
    (IF ~scaleOk THEN << "scale_image: image.scale failed", PassTag(p) \o " scale failed" >>
     ELSE << >>)
    \o (IF saveCalled /\ ~saveOk THEN << PassTag(p) \o " export failed (report)" >> ELSE << >>)
    \o (IF ~restoreOk THEN << "scale_image: image.scale failed" >> ELSE << >>)

\* the sizes of a pass at which the model lets a call of the loop fail
SizeMayFail == sizeIdx <= MaxFailSizes \/ sizeIdx = Len(EXPORT_SIZES)

\* lines 434-462 and 493-516: one size of a pass: scale, save, restore
ExportSize ==
    /\ op = "export" /\ pc = "size"
    /\ \E scaleOk \in Outcomes(SizeMayFail, 0) :
       \E saveOk \in Outcomes(SaveCalled(scaleOk) /\ SizeMayFail, F(scaleOk)) :
       \E restoreOk \in Outcomes(SizeMayFail, F(scaleOk) + F(saveOk)) :
       \E delOk \in Outcomes(~restoreOk, F(scaleOk) + F(saveOk) + 1) :
       \E dupOk \in Outcomes(~restoreOk, F(scaleOk) + F(saveOk) + 1 + F(delOk)) :
       \E mergeOk \in Outcomes(~restoreOk /\ dupOk, F(scaleOk) + F(saveOk) + 1 + F(delOk)) :
       \E flatOk \in Outcomes(~restoreOk /\ dupOk /\ mergeOk /\ pass = "bmp",
                                F(scaleOk) + F(saveOk) + 1 + F(delOk)) :
       \E sizeOk \in Outcomes(~restoreOk /\ dupOk /\ mergeOk,
                                F(scaleOk) + F(saveOk) + 1 + F(delOk) + F(flatOk)) :
        LET s == EXPORT_SIZES[sizeIdx]
            outPath == Path(outputFolder,
                            ArtifactName(compSafe, s, IF pass = "bmp" THEN ExtBmp ELSE ExtPng))
            scaled == Scaled(images[master], s, s, scaleOk)
            saveCalled == SaveCalled(scaleOk)
            restored == Restored(scaled, restoreOk)
            dropped == [images EXCEPT ![master] = Deleted(scaled, delOk)]
            img == NewMaster(layers, pass, mergeOk, flatOk)
            raised == IterationRaises(scaleOk, saveOk, restoreOk, dupOk, mergeOk)
            n == F(scaleOk) + F(saveOk) + F(restoreOk) + F(delOk) + F(dupOk)
                 + F(mergeOk) + F(flatOk) + F(sizeOk)
        IN  /\ CanFail(n)
            /\ fails' = fails + n
            /\ IF saveCalled
               THEN /\ files' = FileSaved(files, outPath, scaled, saveOk)
                    /\ saves' = Append(saves,
                          [comp |-> CompLayer, pass |-> pass, size |-> s, path |-> outPath,
                           w |-> scaled.w, h |-> scaled.h, scaled |-> scaleOk,
                           ok |-> saveOk, img |-> master])
               ELSE UNCHANGED << files, saves >>
            /\ log' = log \o SizeLog(pass, scaleOk, saveCalled, saveOk, restoreOk)
                          \o (IF restoreOk THEN << >> ELSE MasterLog(dupOk, mergeOk, flatOk))
            /\ IF restoreOk
               THEN /\ images' = [images EXCEPT ![master] = restored]
                    /\ UNCHANGED << master, orig >>
               ELSE IF ~dupOk
               THEN /\ images' = dropped
                    /\ UNCHANGED << master, orig >>
               ELSE /\ images' = Append(dropped, img)
                    /\ master' = Len(images) + 1
                    /\ orig' = IF mergeOk THEN ImageSizeSafe(img, sizeOk) ELSE orig
            /\ pc' = AfterSize(sizeIdx, raised)
            /\ sizeIdx' = IF AfterSize(sizeIdx, raised) = "size" THEN sizeIdx + 1 ELSE sizeIdx
    /\ UNCHANGED << envVars, visFailed, writes, layers, dirs, dialogs, op, runMode, args, status, outputFolder,
                    layerTransparent, layerFucsia, layerSmallLogo, loopVars, compSafe,
                    pass, raising, created_files, template, background, exported, ops >>

\* lines 463-464 and 517-518: the handler of a pass logs the layer's name; a
\* get_name that raises there propagates, after the finally clause has run
PassHandler ==
    /\ op = "export" /\ pc = "handler"
    /\ \E nameOk \in BOOLEAN :
        /\ CanFail(F(nameOk))
        /\ fails' = fails + F(nameOk)
        /\ raising' = ~nameOk
        /\ log' = IF nameOk THEN Append(log, "Error preparing " \o PassTag(pass) \o " master")
                  ELSE log
    /\ pc' = "finally"
    /\ UNCHANGED << envVars, visFailed, writes, hostVars, fsVars, dialogs, op, runMode, args, status,
                    outputFolder, exportVars, loopVars, created_files,
                    exported, ops >>

\* lines 465-470 and 519-524: the finally clause of a pass deletes its master;
\* then the PNG pass, the next component, or the end (lines 526-527)
PassFinally ==
    /\ op = "export" /\ pc = "finally"
    /\ \E delOk \in BOOLEAN :
        /\ CanFail(F(delOk))
        /\ master = 0 => delOk
        /\ fails' = fails + F(delOk)
        /\ images' = IF master # 0
                     THEN [images EXCEPT ![master] = Deleted(@, delOk \/ ~@.open)]
                     ELSE images
    /\ master' = 0
    /\ IF raising
       THEN /\ Return("EXCEPTION")
            /\ UNCHANGED << pass, compIdx, log, exported >>
       ELSE IF pass = "bmp"
       THEN /\ pass' = "png"
            /\ pc' = "prep"
            /\ UNCHANGED << status, compIdx, log, exported >>
       ELSE IF compIdx < Len(componentLayers)
       THEN /\ compIdx' = compIdx + 1
            /\ pc' = "comp"
            /\ UNCHANGED << status, pass, log, exported >>
       ELSE /\ log' = Append(log, "Export completed.")
            /\ exported' = TRUE
            /\ Return("SUCCESS")
            /\ UNCHANGED << pass, compIdx >>
    /\ UNCHANGED << envVars, visFailed, writes, layers, fsVars, dialogs, op, runMode, args, outputFolder,
                    layerTransparent, layerFucsia, layerSmallLogo, componentLayers,
                    compSafe, orig, sizeIdx, raising, saves, created_files, template, background, ops >>

\* ------------------------------------------------------------------------
\* generate_rc_files
\* ------------------------------------------------------------------------
RcResolveFolder == op = "rc" /\ ResolveFolder("Canceled")
RcMakeDirs == op = "rc" /\ MakeDirs

\* lines 559-570
RcFindComponents ==
    /\ op = "rc" /\ pc = "find"
    /\ \E listOk \in BOOLEAN, nameFails \in SUBSET LayerIdx :
        LET comps == ComponentLayersOf(listOk, nameFails)
            n == F(listOk) + Cardinality(nameFails)
        IN  /\ CanFail(n)
            /\ (~listOk) => nameFails = {}
            /\ fails' = fails + n
            /\ componentLayers' = comps
            /\ IF comps = << >>
               THEN /\ dialogs' = ShowMessage(dialogs, "No components", runMode)
                    /\ Return("CALLING_ERROR")
                    /\ UNCHANGED compIdx
               ELSE /\ compIdx' = 1
                    /\ pc' = "write"
                    /\ UNCHANGED << dialogs, status >>
    /\ UNCHANGED << envVars, visFailed, writes, hostVars, fsVars, log, op, runMode, args, outputFolder,
                    exportVars, raising, created_files, exported, ops >>

CommentLine(text) == [kind |-> "comment", text |-> text, res |-> << >>, png |-> << >>]

\* the resource name used for the file name too
RecordLineResName(ident, s) ==
    [kind |-> "record", text |-> << >>,
     res |-> ident \o Str(s) \o SuffixPng, png |-> ident \o Str(s) \o SuffixPng \o ExtPng]

\* lines 593-595: RCDATA record of one size
RecordLine(ident, s) ==
    [kind |-> "record", text |-> << >>,
     res |-> ident \o Str(s) \o SuffixPng, png |-> ident \o Str(s) \o ExtPng]

\* lines 590-595: the lines written to one .rc file
RcLines(name, ident) ==
    << CommentLine("Generated by export plugin"), CommentLine(name) >>
    \o [i \in DOMAIN RcSizes |-> RecordLine(ident, RcSizes[i])]

\* lines 589-596: open(rc_filename, "w") and the writes.  The file is whole
\* when nothing raises; when open raises nothing changes; when a write raises
\* the file holds the lines written before it.
RcFileWritten(fs, path, lines, outcome, k) ==
    IF outcome = "ok" THEN (path :> [kind |-> "rc", lines |-> lines]) @@ fs
    ELSE IF outcome = "write_fails"
    THEN (path :> [kind |-> "rc", lines |-> SubSeq(lines, 1, k)]) @@ fs
    ELSE fs

\* the append moved out of the try: a file counts as created even when
\* writing it failed
RcCreatedAlways(created, path, outcome) == Append(created, path)

\* line 596: the file counts as created when no exception left the with block
RcCreated(created, path, outcome) ==
    IF outcome = "ok" THEN Append(created, path) ELSE created

\* where the loop over component_layers goes after layer number i
AfterRcLayer(i) == IF i < Len(componentLayers) THEN "write" ELSE "finish"

\* lines 573-598: one component layer of the loop
RcWrite ==
    /\ op = "rc" /\ pc = "write"
    /\ \E nameOk \in BOOLEAN, outcome \in {"ok", "open_fails", "write_fails"},
          k \in 0 .. (Len(RcSizes) + 1) :
        LET raw == layers[CompLayer].name
            skipped == ~nameOk \/ RcNameRaises(raw)
            name == RcName(raw)
            ident == RcIdent(raw)
            rc_filename == Path(outputFolder, ident \o ExtRc)
            n == F(nameOk) + F(outcome = "ok")
        IN  /\ CanFail(n)
            /\ skipped => outcome = "ok"
            /\ outcome # "write_fails" => k = 0
            /\ fails' = fails + n
            /\ IF skipped
               THEN UNCHANGED << files, created_files, log, writes >>
               ELSE /\ files' = RcFileWritten(files, rc_filename, RcLines(name, ident), outcome, k)
                    /\ writes' = Append(writes, [comp |-> CompLayer, path |-> rc_filename,
                                                 ok |-> outcome = "ok"])
                    /\ created_files' = RcCreated(created_files, rc_filename, outcome)
                    /\ log' = IF outcome = "ok" THEN log ELSE Append(log, "Failed to write")
    /\ pc' = AfterRcLayer(compIdx)
    /\ compIdx' = IF compIdx < Len(componentLayers) THEN compIdx + 1 ELSE compIdx
    /\ UNCHANGED << envVars, visFailed, hostVars, dirs, dialogs, op, runMode, args, status, outputFolder,
                    exportVars, componentLayers, raising, exported, ops >>

\* lines 600-606: the status of the rc generator
RcStatus(created) == IF created # << >> THEN "SUCCESS" ELSE "CALLING_ERROR"

RcFinish ==
    /\ op = "rc" /\ pc = "finish"
    /\ dialogs' = ShowMessage(dialogs,
                              IF created_files # << >> THEN "RC files created" ELSE "Failed",
                              runMode)
    /\ Return(RcStatus(created_files))
    /\ UNCHANGED << envVars, visFailed, writes, hostVars, fsVars, log, op, runMode, args, outputFolder,
                    exportVars, loopVars, raising, created_files, exported,
                    fails, ops >>

\* ------------------------------------------------------------------------
\* create_template_image
\* ------------------------------------------------------------------------
NameTmpRect == <<"t","m","p","_","w","h","i","t","e","_","r","e","c","t">>
\* "Duplicate and rename as Cmp TMyComponent" (line 699)
NamePlaceholder == <<"D","u","p","l","i","c","a","t","e"," ","a","n","d"," ",
                     "r","e","n","a","m","e"," ","a","s"," ">> \o CmpPrefix
                   \o <<"T","M","y","C","o","m","p","o","n","e","n","t">>

\* line 621, outside the try: a context_get_background that raises leaves the
\* operation as an exception
TemplateContext ==
    /\ op = "template" /\ pc = "t_context"
    /\ \E ok \in Outcomes(TRUE, 0) :
        /\ fails' = fails + F(ok)
        /\ IF ok
           THEN pc' = "t_backgrounds" /\ UNCHANGED status
           ELSE Return("EXCEPTION")
    /\ template' = NoImage
    /\ UNCHANGED << envVars, visFailed, writes, layers, images, background, fsVars, dialogs, log, op, runMode,
                    args, outputFolder, exportVars, loopVars, raising, created_files,
                    exported, ops >>

\* _new_rgba_layer (lines 635-663).  Layer.new is tried twice and raises
\* RuntimeError when both fail; insert_layer falls back to add_layer, and when
\* both fail the layer is returned without being in the image.
\*   "ok"       the layer is on top of the image
\*   "retried"  the same, after the first Layer.new or insert_layer failed
\*   "missing"  insert_layer and add_layer failed
\*   "raise"    Layer.new failed twice
LayerOutcomes(n) ==
    {"ok"} \cup (IF CanFail(n + 1) THEN {"retried"} ELSE {})
           \cup (IF CanFail(n + 2) THEN {"missing", "raise"} ELSE {})

LayerCost(outcome) ==
    CASE outcome = "ok" -> 0
      [] outcome = "retried" -> 1
      [] OTHER -> 2

\* the layers of the image after _new_rgba_layer: a new layer is visible
NewRgbaLayer(ls, name, outcome) ==
    IF outcome \in {"ok", "retried"} THEN << L(name, TRUE) >> \o ls ELSE ls

\* set_visible on the layer of that name, when it is in the image
SetVisibleByName(ls, name, v) ==
    [i \in DOMAIN ls |-> IF ls[i].name = name THEN [ls[i] EXCEPT !.visible = v] ELSE ls[i]]

\* Image.new (lines 629-632) is tried twice
ImageOutcomes == {"ok"} \cup (IF CanFail(1) THEN {"retried"} ELSE {})
                        \cup (IF CanFail(2) THEN {"raise"} ELSE {})

\* lines 627-675: the image and its two background layers.  stop is the number
\* of the call that raises, 0 when none does:
\*   1 Image.new            2 _new_rgba_layer (transparent)  3 tb_layer.fill
\*   4 tb_layer.set_visible 5 _new_rgba_layer (fuchsia)      6 context_set_background
\*   7 fb_layer.fill        8 context_set_background (old)   9 fb_layer.set_visible
TemplateBackgrounds ==
    /\ op = "template" /\ pc = "t_backgrounds"
    /\ \E io \in ImageOutcomes :
       \E tb \in (IF io = "raise" THEN {"ok"} ELSE LayerOutcomes(LayerCost(io))) :
       \E fb \in (IF io = "raise" \/ tb = "raise" THEN {"ok"}
                  ELSE LayerOutcomes(LayerCost(io) + LayerCost(tb))) :
       \E stop \in {0, 3, 4, 6, 7, 8, 9} :
        LET raisesAt == IF io = "raise" THEN 1
                        ELSE IF tb = "raise" THEN 2
                        ELSE IF fb = "raise" THEN 5
                        ELSE stop
            n == LayerCost(io) + LayerCost(tb) + LayerCost(fb)
                 + (IF stop # 0 THEN 1 ELSE 0)
            reached(k) == raisesAt = 0 \/ raisesAt > k
            ls1 == IF reached(2) THEN NewRgbaLayer(<< >>, NameTransparent, tb) ELSE << >>
            ls2 == IF reached(4) THEN SetVisibleByName(ls1, NameTransparent, FALSE) ELSE ls1
            ls3 == IF reached(5) THEN NewRgbaLayer(ls2, NameFucsia, fb) ELSE ls2
            ls4 == IF reached(9) THEN SetVisibleByName(ls3, NameFucsia, FALSE) ELSE ls3
        IN  /\ (io = "raise" \/ tb = "raise" \/ fb = "raise") => stop = 0
            /\ stop \in {3, 4} => fb = "ok"
            /\ CanFail(n)
            /\ fails' = fails + n
            /\ template' = [exists |-> reached(1), w |-> IF reached(1) THEN 1024 ELSE 0,
                            h |-> IF reached(1) THEN 1024 ELSE 0,
                            layers |-> ls4, displayed |-> FALSE]
            /\ background' = IF reached(8) THEN "old"
                             ELSE IF reached(6) THEN "fucsia" ELSE background
            /\ pc' = IF raisesAt = 0 THEN "t_logo" ELSE "t_except"
    /\ UNCHANGED << envVars, visFailed, writes, layers, images, fsVars, dialogs, log, op, runMode, args, status,
                    outputFolder, exportVars, loopVars, raising, created_files,
                    exported, ops >>

\* every layer merged, as image.flatten() would do
MergeEveryLayer(ls) == << [ls[Len(ls)] EXCEPT !.visible = TRUE] >>

\* Image.merge_visible_layers: the visible layers become one layer, at the
\* place of the lowest of them and with its name
MergeVisible(ls) ==
    LET vis == { i \in DOMAIN ls : ls[i].visible }
        low == CHOOSE i \in vis : \A j \in vis : j <= i
    IN  IF vis = {} THEN ls
        ELSE SelectIdxLayers(ls, (DOMAIN ls \ vis) \cup {low})

\* lines 678-696: the 'Small logo' layer and the white rectangle merged into
\* it.  Everything after _new_rgba_layer is inside a try whose handler is
\* "pass"; stop is the number of the call that raises there, 0 when none does:
\*   1 Layer.new   2 insert_layer   3 fill   4 set_offsets   5 tmp_rect.set_visible
\*   6 sl_layer.set_visible   7 merge_visible_layers   8 merged.set_name
TemplateSmallLogo ==
    /\ op = "template" /\ pc = "t_logo"
    /\ \E sl \in LayerOutcomes(0) :
       \E stop \in (IF sl # "raise" /\ CanFail(LayerCost(sl) + 1) THEN 0 .. 8 ELSE {0}) :
        LET n == LayerCost(sl) + (IF stop = 0 THEN 0 ELSE 1)
            reached(k) == stop = 0 \/ stop > k
            ls1 == NewRgbaLayer(template.layers, NameSmallLogo, sl)
            ls2 == IF reached(2) THEN << L(NameTmpRect, TRUE) >> \o ls1 ELSE ls1
            ls3 == IF reached(6) THEN SetVisibleByName(ls2, NameSmallLogo, TRUE) ELSE ls2
            ls4 == IF reached(7) THEN MergeVisible(ls3) ELSE ls3
            ls5 == IF reached(8)
                   THEN [i \in DOMAIN ls4 |->
                            IF ls4[i].visible THEN [ls4[i] EXCEPT !.name = NameSmallLogo]
                            ELSE ls4[i]]
                   ELSE ls4
        IN  /\ CanFail(n)
            /\ fails' = fails + n
            /\ IF sl = "raise"
               THEN /\ pc' = "t_except"
                    /\ UNCHANGED template
               ELSE /\ pc' = "t_placeholder"
                    /\ template' = [template EXCEPT !.layers = ls5]
    /\ UNCHANGED << envVars, visFailed, writes, layers, images, background, fsVars, dialogs, log, op, runMode,
                    args, status, outputFolder, exportVars, loopVars, raising,
                    created_files, exported, ops >>

\* lines 698-701: the placeholder layer, and the transparent layer shown again
TemplatePlaceholder ==
    /\ op = "template" /\ pc = "t_placeholder"
    /\ \E dp \in LayerOutcomes(0) :
       \E showOk \in Outcomes(dp # "raise", LayerCost(dp)) :
        LET ls1 == NewRgbaLayer(template.layers, NamePlaceholder, dp)
            ls2 == IF showOk THEN SetVisibleByName(ls1, NameTransparent, TRUE) ELSE ls1
        IN  /\ fails' = fails + LayerCost(dp) + F(showOk)
            /\ IF dp = "raise"
               THEN /\ pc' = "t_except"
                    /\ UNCHANGED template
               ELSE /\ template' = [template EXCEPT !.layers = ls2]
                    /\ pc' = IF showOk THEN "t_display" ELSE "t_except"
    /\ UNCHANGED << envVars, visFailed, writes, layers, images, background, fsVars, dialogs, log, op, runMode,
                    args, status, outputFolder, exportVars, loopVars, raising,
                    created_files, exported, ops >>

\* lines 703-713: Display.new falls back to display_image; both may fail
TemplateDisplay ==
    /\ op = "template" /\ pc = "t_display"
    /\ \E outcome \in {"ok"} \cup (IF CanFail(1) THEN {"retried"} ELSE {})
                             \cup (IF CanFail(2) THEN {"missing"} ELSE {}) :
        /\ fails' = fails + LayerCost(outcome)
        /\ template' = [template EXCEPT !.displayed = outcome # "missing"]
    /\ dialogs' = ShowMessage(dialogs, "Template created", runMode)
    /\ Return("SUCCESS")
    /\ UNCHANGED << envVars, visFailed, writes, layers, images, background, fsVars, log, op, runMode, args,
                    outputFolder, exportVars, loopVars, raising, created_files,
                    exported, ops >>

\* lines 715-718: the handler of the try; show_message_dialog gets no run mode
TemplateExcept ==
    /\ op = "template" /\ pc = "t_except"
    /\ log' = Append(log, "create_template_image failed")
    /\ dialogs' = ShowMessage(dialogs, "Error", "None")
    /\ Return("CALLING_ERROR")
    /\ UNCHANGED << envVars, visFailed, writes, hostVars, fsVars, op, runMode, args, outputFolder,
                    exportVars, loopVars, raising, created_files, exported, fails, ops >>

\* ------------------------------------------------------------------------
\* The specification
\* ------------------------------------------------------------------------
Next ==
    \/ Invoke
    \/ ExportResolveFolder
    \/ ExportMakeDirs
    \/ ExportFindLayers
    \/ CompBegin
    \/ PassPrepare
    \/ ExportSize
    \/ PassHandler
    \/ PassFinally
    \/ RcResolveFolder
    \/ RcMakeDirs
    \/ RcFindComponents
    \/ RcWrite
    \/ RcFinish
    \/ TemplateContext
    \/ TemplateBackgrounds
    \/ TemplateSmallLogo
    \/ TemplatePlaceholder
    \/ TemplateDisplay
    \/ TemplateExcept

Spec == Init /\ [][Next]_vars

\* ------------------------------------------------------------------------
\* Properties
\* ------------------------------------------------------------------------
\* the identifier of a component layer as the specification words it: what
\* follows the prefix "Cmp ", stripped, every character outside [A-Za-z0-9_]
\* replaced by "_"
Suffix(name) == Strip(Tail_(name, Len(CmpPrefix) + 1))
SpecIdent(name) == ReSub(Suffix(name))

\* the component layers of the Document
Components == { i \in LayerIdx : IsComponentName(layers[i].name) }

Passes == {"bmp", "png"}
ExtOf(p) == IF p = "bmp" THEN ExtBmp ELSE ExtPng

ImageFiles == { p \in DOMAIN files : files[p].kind \in Passes }
RcFiles == { p \in DOMAIN files : files[p].kind = "rc" }

\* the duplicates the running operation made
OwnImages == { i \in DOMAIN images : i > pre.images }

\* host calls that failed in the running operation
OwnFails == fails - pre.fails

ExportEnded == op = "export" /\ pc = "idle"
RcEnded == op = "rc" /\ pc = "idle"

\* the operation left the state it found untouched
NothingChanged ==
    /\ files = pre.files
    /\ dirs = pre.dirs
    /\ Len(images) = pre.images
    /\ layers = pre.layers

\* C1: an export in which no host call fails writes, for every component
\* layer C of the Document, the files <folder>/<sanitize(C)><size>.bmp and
\* .png for each size in EXPORT_SIZES, and no other image file.
C1_ExportWritesEveryArtifact ==
    (ExportEnded /\ OwnFails = 0 /\ outputFolder = GoodFolder /\ pre.files = << >>)
    => ImageFiles = { Path(GoodFolder,
                           ArtifactName(SpecIdent(layers[c].name), EXPORT_SIZES[k], ExtOf(p)))
                      : c \in Components, k \in DOMAIN EXPORT_SIZES, p \in Passes }

\* C2 (as stated): between the passes and when the export has ended, every
\* duplicate the export made has been deleted.
C2_NoMasterOutlivesItsPass ==
    (op = "export" /\ pc \in {"idle", "comp", "prep"})
    => \A i \in DOMAIN images : ~images[i].open

\* C2 (amended): a delete call has been issued on every duplicate other than
\* the master of the running pass, and a duplicate survives its delete call
\* only when a host call failed.
C2_DeleteIssuedOnEveryMaster ==
    \A i \in DOMAIN images :
        /\ \/ op = "export" /\ pc \in {"size", "handler", "finally"} /\ i = master
           \/ images[i].deletes >= 1
        /\ (images[i].open /\ images[i].deletes >= 1) => fails > 0

\* a BMP pass that failed (the merge raised) has ended, and its master is gone
C2_Witness ==
    /\ op = "export" /\ pc = "prep" /\ pass = "png"
    /\ \E i \in OwnImages :
        /\ images[i].pass = "bmp" /\ ~images[i].merged
        /\ images[i].deletes = 1 /\ ~images[i].open

\* C3: when the export has ended, each component layer has exactly one BMP
\* master and one PNG master, and each was deleted exactly once.
C3_OneMasterPerPassDeletedOnce ==
    (ExportEnded /\ status = "SUCCESS")
    => \A c \in Range(componentLayers), p \in Passes :
        /\ Cardinality({ i \in OwnImages : images[i].comp = c /\ images[i].pass = p }) = 1
        /\ \A i \in OwnImages :
            (images[i].comp = c /\ images[i].pass = p) => images[i].deletes = 1

\* the saves an export makes when nothing stops it: for each component layer
\* in order, the BMP of every size, then the PNG of every size
ExpectedSave(k) ==
    LET n == Len(EXPORT_SIZES)
        j == (k - 1) % (2 * n)
    IN  [comp |-> componentLayers[((k - 1) \div (2 * n)) + 1],
         pass |-> IF j < n THEN "bmp" ELSE "png",
         size |-> EXPORT_SIZES[(j % n) + 1]]

\* scale-to-size and save calls that failed in the running export
SizeFailures ==
    Cardinality({ k \in DOMAIN saves : ~saves[k].scaled })
    + Cardinality({ k \in DOMAIN saves : ~saves[k].ok })

\* C4: while the only host calls that failed are scale-to-size and save calls,
\* no artifact is skipped: the saves attempted so far are those of the
\* components, passes and sizes in order, and an export that returns SUCCESS
\* has attempted the save of every size of both passes of every component.
C4_SizeFailureDoesNotAbort ==
    (op = "export" /\ OwnFails = SizeFailures)
    => /\ \A k \in DOMAIN saves :
            /\ k <= Len(componentLayers) * 2 * Len(EXPORT_SIZES)
            /\ saves[k].comp = ExpectedSave(k).comp
            /\ saves[k].pass = ExpectedSave(k).pass
            /\ saves[k].size = ExpectedSave(k).size
       /\ (pc = "idle" /\ status = "SUCCESS")
            => Len(saves) = Len(componentLayers) * 2 * Len(EXPORT_SIZES)

\* the first size of the first component failed, and the export of two
\* components went on to its end
C4_Witness ==
    /\ ExportEnded /\ status = "SUCCESS"
    /\ Len(componentLayers) = 2
    /\ OwnFails = SizeFailures /\ SizeFailures >= 1
    /\ ~saves[1].scaled \/ ~saves[1].ok
    /\ Len(saves) = 2 * 2 * Len(EXPORT_SIZES)

\* C5: no operation ends with an exception.
C5_NoExceptionLeavesAnOperation == status # "EXCEPTION"

\* C6: an export that reports a precondition failure has changed nothing: no
\* file, no folder, no duplicate, no visibility flag.
C6_PreconditionFailureChangesNothing ==
    (ExportEnded /\ status = "CALLING_ERROR") => NothingChanged

ErrorTitles == {"Error", "Failed", "No components"}

\* C7: when the folder chooser of an interactive export or rc generation
\* returns no folder, the operation returns CANCEL, changes nothing and opens
\* no error dialog.
C7_CancelChangesNothing ==
    (op \in {"export", "rc"} /\ pc = "idle" /\ runMode = Interactive
        /\ outputFolder = NoFolder)
    => /\ status = "CANCEL"
       /\ NothingChanged
       /\ \A k \in DOMAIN dialogs :
            dialogs[k].kind = "message" => dialogs[k].title \notin ErrorTitles

C7_Witness ==
    /\ ExportEnded /\ runMode = Interactive /\ outputFolder = NoFolder
    /\ status = "CANCEL"
    /\ \E k \in DOMAIN dialogs : dialogs[k].kind = "chooser"

\* C8: a save to <id><s>.<ext> is made only from a master the scale call has
\* brought to (s, s).
C8_SavedOnlyWhenScaled ==
    \A k \in DOMAIN saves :
        /\ saves[k].scaled
        /\ saves[k].w = saves[k].size /\ saves[k].h = saves[k].size

\* M: the number of distinct sizes in {16} and EXPORT_SIZES
SizeSet == {16} \cup Range(EXPORT_SIZES)

NamedComponents == { c \in Components : Suffix(layers[c].name) # << >> }

C10_RcWriteErrorDoesNotAbort ==
    (RcEnded /\ componentLayers # << >>)
    => /\ status = "SUCCESS" <=> \E k \in DOMAIN writes : writes[k].ok
       /\ status \in {"SUCCESS", "CALLING_ERROR"}
       /\ (OwnFails = Cardinality({ k \in DOMAIN writes : ~writes[k].ok }))
            => { writes[k].comp : k \in DOMAIN writes } = NamedComponents

\* the write of the first file failed, the one of a later file succeeded
C10_Witness ==
    /\ RcEnded /\ status = "SUCCESS"
    /\ \E k, j \in DOMAIN writes : k < j /\ ~writes[k].ok /\ writes[j].ok

\* a non-empty string over [A-Za-z0-9_]
IsIdentifier(s) == s # << >> /\ \A i \in DOMAIN s : s[i] \in WordChars

\* the file name of an .rc file without its extension
RcBase(path) == SubSeq(path.name, 1, Len(path.name) - Len(ExtRc))

\* C11: sanitisation is total and idempotent.  The export derives an
\* identifier for every component layer whose name it gets, so no export ends
\* in an exception unless a host call failed; the identifier of the current
\* component is a non-empty string over [A-Za-z0-9_] that sanitising leaves
\* unchanged; rc generation without a failed call derives such an identifier
\* for every component layer, and two component layers whose names differ in
\* other characters only get the same one.
C11_SanitizeTotalAndIdempotent ==
    /\ (ExportEnded /\ status = "EXCEPTION") => OwnFails > 0
    /\ (op = "export" /\ pc \in {"prep", "size", "handler", "finally"})
        => /\ IsIdentifier(compSafe)
           /\ ReSub(compSafe) = compSafe
           /\ compSafe = SpecIdent(layers[CompLayer].name)
    /\ (RcEnded /\ OwnFails = 0 /\ outputFolder = GoodFolder)
        => /\ { writes[k].comp : k \in DOMAIN writes } = Components
           /\ \A k \in DOMAIN writes :
                /\ IsIdentifier(RcBase(writes[k].path))
                /\ ReSub(RcBase(writes[k].path)) = RcBase(writes[k].path)
           /\ \A k, j \in DOMAIN writes :
                ReSub(layers[writes[k].comp].name) = ReSub(layers[writes[j].comp].name)
                    => writes[k].path = writes[j].path

\* C12: in a non-interactive run of any of the three operations no dialog is
\* opened, neither the folder chooser nor a message, and once the folder is
\* resolved it is the first positional argument.
C12_DialogsInInteractiveModeOnly ==
    (op # "none" /\ runMode = NonInteractive)
    => /\ dialogs = << >>
       /\ (op \in {"export", "rc"} /\ pc # "resolve" /\ args # << >>)
            => outputFolder = args[1]

TemplateEnded == op = "template" /\ pc = "idle"

\* the names of the layers a template must hold
TemplateNames == { NameTransparent, NameFucsia, NameSmallLogo, NamePlaceholder }

\* C13: a template builder run in which no host call fails returns SUCCESS,
\* and the new 1024x1024 image holds exactly four layers: one named
\* 'Transparent Background', one named 'Fucsia Background', one named
\* 'Small logo' and the placeholder, whose name does not start with 'Cmp ';
\* the temporary rectangle layer is gone.
C13_TemplateHasFourLayers ==
    (TemplateEnded /\ OwnFails = 0)
    => /\ status = "SUCCESS"
       /\ template.exists /\ template.w = 1024 /\ template.h = 1024
       /\ Len(template.layers) = 4
       /\ \A n \in TemplateNames :
            Cardinality({ i \in DOMAIN template.layers : template.layers[i].name = n }) = 1
       /\ \A i \in DOMAIN template.layers : template.layers[i].name # NameTmpRect
       /\ ~IsComponentName(NamePlaceholder)

C13_Witness ==
    /\ TemplateEnded /\ OwnFails = 0 /\ status = "SUCCESS"
    /\ Len(template.layers) = 4
    /\ \E i \in DOMAIN template.layers : template.layers[i].name = NameSmallLogo

\* the layers of the Document with this name
Named(name) == { i \in LayerIdx : layers[i].name = name }

\* every layer the export looks for was found: the component layers, and
\* each service layer that the Document has
LookupsFound ==
    /\ Range(componentLayers) = Components
    /\ Named(NameSmallLogo) # {} => layerSmallLogo \in Named(NameSmallLogo)
    /\ Named(NameFucsia) # {} => layerFucsia \in Named(NameFucsia)
    /\ Named(NameTransparent) # {} => layerTransparent \in Named(NameTransparent)

\* the layers that were visible when the current master was duplicated are
\* those a master of component CompLayer and of this pass must show
MasterShowsComponent ==
    LET v == images[master].visible
    IN  /\ images[master].comp = CompLayer /\ images[master].pass = pass
        /\ v \cap Components = {CompLayer}
        /\ Named(NameSmallLogo) \subseteq v
        /\ \A i \in Named(NameFucsia) : i \in v <=> pass = "bmp"
        /\ \A i \in Named(NameTransparent) : i \in v <=> pass = "png"

\* a pass of the export has a master
HasMaster == op = "export" /\ pc \in {"size", "handler", "finally"} /\ master # 0

DocSize == << Docs[doc].w, Docs[doc].h >>

\* the saves of the current pass so far
PassSaves == { k \in DOMAIN saves : saves[k].comp = CompLayer /\ saves[k].pass = pass }

\* the masters of the current pass that were discarded
Discarded ==
    { i \in OwnImages : i # master /\ images[i].comp = CompLayer /\ images[i].pass = pass }

SizeStarts == op = "export" /\ pc = "size"

PngNames == { q.name : q \in { p \in DOMAIN files : files[p].kind = "png" } }

\* the records of an .rc file
Records(p) == { i \in DOMAIN files[p].lines : files[p].lines[i].kind = "record" }

\* C16: once an export in which no call failed has run to its end, for every
\* .rc file <id>.rc written without a failed call: each PNG the export writes
\* for the identifier, <id><s>.png with s in EXPORT_SIZES, exists and is
\* referenced by exactly one record of the file, and the only PNG the file
\* references that the export did not write is <id>16.png; and when rc
\* generation has ended, every component identifier has its .rc file.
C16_RcReferencesExportedPngs ==
    (exported /\ fails = 0)
    => /\ \A p \in RcFiles :
            LET id == RcBase(p)
                lines == files[p].lines
                referenced == { lines[i].png : i \in Records(p) }
            IN  /\ \A k \in DOMAIN EXPORT_SIZES :
                    LET name == id \o Str(EXPORT_SIZES[k]) \o ExtPng
                    IN  /\ name \in PngNames
                        /\ Cardinality({ i \in Records(p) : lines[i].png = name }) = 1
                /\ referenced \ PngNames = { id \o Str(16) \o ExtPng }
       /\ (RcEnded /\ status = "SUCCESS")
            => \A c \in Components :
                Path(outputFolder, SpecIdent(layers[c].name) \o ExtRc) \in RcFiles

\* an export in which no call failed ends after the .rc files were generated
C16_Witness ==
    /\ ExportEnded /\ status = "SUCCESS" /\ exported /\ fails = 0
    /\ Cardinality(RcFiles) = 2
    /\ Cardinality(PngNames) = 2 * Len(EXPORT_SIZES)

====
